---- MODULE Spec2Model ----
(***************************************************************************)
(* A model of fastapi-filter: BaseFilter (base.py) compiles the query      *)
(* parameters of one request into a query (filter, search, order, offset,  *)
(* limit) and BaseFilterSchema (schema.py) coerces the raw values.         *)
(*                                                                         *)
(* Text.  A Python str is modelled as a sequence of pieces whose           *)
(* concatenation is the text.  The characters the code looks at ("_",      *)
(* ",", "-", "+", ".", the digits and every white-space character) are     *)
(* always pieces of their own,                                             *)
(* so that str.split, order_by[0] and the int parser are computed on the   *)
(* model as on the text: "age__not_in" is                                  *)
(* <<"age","_","_","not","_","in">>.                                       *)
(***************************************************************************)
EXTENDS Integers, Sequences, FiniteSets

VARIABLES
    schema,            \* BaseFilter.schema: the fields of the filter schema
    default_ordering,  \* BaseFilter.default_ordering
    request,           \* request.query_params: ordered (key, value) pairs
    state,             \* "new" | "dead" (__init__ raised) | "ready" | "running" (in full())
    pc,                \* position of full() in its chain of stages
    paginator,         \* self.paginator: page and per_page
    query,             \* self._query
    error,             \* the exception the last call raised: its entries, <<>> if it returned
    last,              \* "none" | "returned" | "raised": how the last call ended
    trace,             \* the calls made on the compiler so far, in order
    full_run,          \* the stages the latest full() has invoked
    full_result,       \* "none" | "running" | "returned" | "raised": the latest full()
    calls,             \* number of direct calls made by the caller
    response           \* the paginator built by get_response

vars == <<schema, default_ordering, request, state, pc, paginator, query,
          error, last, trace, full_run, full_result, calls, response>>

(***************************************************************************)
(* Bounds of the model.                                                    *)
(***************************************************************************)
\* the largest number of filter parameters of a generated request
MaxKeys == 2
\* the largest number of direct calls (stages, inject_query, full,
\* get_response) of one caller
MaxCalls == 2

(***************************************************************************)
(* Text helpers.                                                           *)
(***************************************************************************)
Digits == {"0", "1", "2", "3", "4", "5", "6", "7", "8", "9"}

DigitVal(c) ==
    CASE c = "0" -> 0 [] c = "1" -> 1 [] c = "2" -> 2 [] c = "3" -> 3
      [] c = "4" -> 4 [] c = "5" -> 5 [] c = "6" -> 6 [] c = "7" -> 7
      [] c = "8" -> 8 [] c = "9" -> 9

MatchAt(s, i, sep) ==
    /\ i + Len(sep) - 1 <= Len(s)
    /\ SubSeq(s, i, i + Len(sep) - 1) = sep

RECURSIVE SplitFrom(_, _, _, _, _)
SplitFrom(s, sep, i, cur, acc) ==
    IF i > Len(s) THEN Append(acc, cur)
    ELSE IF MatchAt(s, i, sep)
         THEN SplitFrom(s, sep, i + Len(sep), <<>>, Append(acc, cur))
         ELSE SplitFrom(s, sep, i + 1, Append(cur, s[i]), acc)

\* str.split(sep): the parts between the non-overlapping occurrences of sep,
\* found from the left
Split(s, sep) == SplitFrom(s, sep, 1, <<>>, <<>>)

RECURSIVE DigitsValue(_, _, _)
DigitsValue(s, i, n) ==
    IF i > Len(s) THEN n ELSE DigitsValue(s, i + 1, 10 * n + DigitVal(s[i]))

AllDigits(s) == Len(s) > 0 /\ \A i \in 1..Len(s) : s[i] \in Digits

\* the white-space characters the int parser strips (Unicode White_Space):
\* space, tab, line feed, form feed, carriage return, and, written as the
\* characters themselves, U+000B, U+0085, U+00A0 and U+1680; the others
\* (U+2000 to U+200A, U+2028, U+2029, U+202F, U+205F, U+3000) cannot be
\* written in a string and are no piece of any text of the model
Whitespace == {" ", "\t", "\n", "\f", "\r", "", "", " ", " "}

RECURSIVE TrimLeft(_)
TrimLeft(s) == IF s # <<>> /\ s[1] \in Whitespace THEN TrimLeft(Tail(s)) ELSE s

RECURSIVE TrimRight(_)
TrimRight(s) ==
    IF s # <<>> /\ s[Len(s)] \in Whitespace
    THEN TrimRight(SubSeq(s, 1, Len(s) - 1))
    ELSE s

\* the text without its leading and trailing white space
Trim(s) == TrimRight(TrimLeft(s))

Unsigned(s) == IF s # <<>> /\ s[1] \in {"-", "+"} THEN Tail(s) ELSE s

\* "5.0" -> "5": a decimal point followed by one or more zeros, and nothing
\* else, is dropped
StripDecimalZeros(s) ==
    IF \E i \in 1..Len(s) : s[i] = "."
    THEN LET i == CHOOSE k \in 1..Len(s) :
                     s[k] = "." /\ \A j \in 1..(k - 1) : s[j] # "."
         IN  IF i < Len(s) /\ \A j \in (i + 1)..Len(s) : s[j] = "0"
             THEN SubSeq(s, 1, i - 1)
             ELSE s
    ELSE s

\* "1_0" -> "10": single underscores between digits are dropped
StripUnderscores(s) ==
    IF /\ s # <<>>
       /\ s[1] # "_"
       /\ s[Len(s)] # "_"
       /\ \A i \in 1..(Len(s) - 1) : ~(s[i] = "_" /\ s[i + 1] = "_")
    THEN SelectSeq(s, LAMBDA c : c # "_")
    ELSE s

\* the lax str -> int conversion of an int field: surrounding white space, an
\* optional sign, digits with single underscores between them, and an
\* optional decimal point followed by zeros
ParseInt(s) ==
    LET t == Trim(s)
        digits == StripUnderscores(StripDecimalZeros(Unsigned(t)))
    IN  IF AllDigits(digits)
        THEN [ok |-> TRUE,
              n  |-> IF t[1] = "-" THEN 0 - DigitsValue(digits, 1, 0)
                                   ELSE DigitsValue(digits, 1, 0)]
        ELSE [ok |-> FALSE, n |-> 0]

(***************************************************************************)
(* Names.                                                                  *)
(***************************************************************************)
ordering_param == <<"order", "_", "by">>
search_param == <<"search">>
page_param == <<"page">>
per_page_param == <<"per", "_", "page">>

ReservedKeys == {ordering_param, search_param, page_param, per_page_param}

DD == <<"_", "_">>

\* ORM_LOOKUP_MAPPING: the suffix of a key -> the column method
LookupSuffixes ==
    {<<"neq">>, <<"gt">>, <<"gte">>, <<"lt">>, <<"lte">>, <<"in">>,
     <<"not", "_", "in">>, <<"regexp">>}

ORM_LOOKUP_MAPPING(suffix) ==
    CASE suffix = <<"neq">> -> "__ne__"
      [] suffix = <<"gt">> -> "__gt__"
      [] suffix = <<"gte">> -> "__ge__"
      [] suffix = <<"lt">> -> "__lt__"
      [] suffix = <<"lte">> -> "__le__"
      [] suffix = <<"in">> -> "in_"
      [] suffix = <<"not", "_", "in">> -> "not_in"
      [] suffix = <<"regexp">> -> "regexp_match"

(***************************************************************************)
(* Query parameters: request.query_params as the ordered pairs its         *)
(* items() yields, one per key.                                            *)
(***************************************************************************)
Param(k, v) == [key |-> k, value |-> v]

HasKey(params, k) == \E i \in 1..Len(params) : params[i].key = k

\* query_params.get(k): present is FALSE for None
Get(params, k) ==
    IF HasKey(params, k)
    THEN [present |-> TRUE,
          value |-> params[CHOOSE i \in 1..Len(params) : params[i].key = k].value]
    ELSE [present |-> FALSE, value |-> <<>>]

\* Python's "not x" for an Optional[str]
Falsy(x) == ~x.present \/ x.value = <<>>

(***************************************************************************)
(* The filter schema: model_fields in declaration order.                   *)
(***************************************************************************)
FieldNames(sch) == {sch[i].name : i \in 1..Len(sch)}

FieldOf(sch, name) == sch[CHOOSE i \in 1..Len(sch) : sch[i].name = name]

(***************************************************************************)
(* Errors: the entries of RequestValidationError.errors().  kind is the    *)
(* kind of the entry, name the key, field or suffix it names, idx the      *)
(* 0-based position in a list value (NoIdx for none).                      *)
(***************************************************************************)
NoIdx == 0 - 1

Err(kind, name, idx) == [kind |-> kind, name |-> name, idx |-> idx]

(***************************************************************************)
(* BasePaginator: page and per_page with their Field constraints.          *)
(***************************************************************************)
DefaultPage == 0
MinPage == 0
DefaultPerPage == 10
MinPerPage == 1
MaxPerPage == 100

PageInRange(n) == n >= MinPage

PerPageInRangeNoCeiling(n) == n >= MinPerPage

PerPageInRange(n) == n >= MinPerPage /\ n <= MaxPerPage

\* the validation of one int field of the paginator from the parameters
PageField(params) ==
    LET raw == Get(params, page_param)
        parsed == ParseInt(raw.value)
    IN  IF ~raw.present THEN [errors |-> <<>>, n |-> DefaultPage]
        ELSE IF ~parsed.ok
             THEN [errors |-> <<Err("int_parsing", page_param, NoIdx)>>, n |-> 0]
        ELSE IF ~PageInRange(parsed.n)
             THEN [errors |-> <<Err("greater_than_equal", page_param, NoIdx)>>, n |-> 0]
        ELSE [errors |-> <<>>, n |-> parsed.n]

PerPageField(params) ==
    LET raw == Get(params, per_page_param)
        parsed == ParseInt(raw.value)
    IN  IF ~raw.present THEN [errors |-> <<>>, n |-> DefaultPerPage]
        ELSE IF ~parsed.ok
             THEN [errors |-> <<Err("int_parsing", per_page_param, NoIdx)>>, n |-> 0]
        ELSE IF ~PerPageInRange(parsed.n)
             THEN [errors |->
                     <<Err(IF parsed.n < MinPerPage THEN "greater_than_equal"
                                                    ELSE "less_than_equal",
                           per_page_param, NoIdx)>>,
                   n |-> 0]
        ELSE [errors |-> <<>>, n |-> parsed.n]

\* paginator_class.model_validate({**query_params, 'results': []})
PaginatorValidate(params) ==
    LET p == PageField(params)
        pp == PerPageField(params)
    IN  [errors |-> p.errors \o pp.errors, page |-> p.n, per_page |-> pp.n]

NoPaginator == [page |-> 0 - 1, per_page |-> 0 - 1]

(***************************************************************************)
(* The query: select(orm_model) and what the stages add to it.             *)
(***************************************************************************)
Unset == [set |-> FALSE, n |-> 0]

SetTo(n) == [set |-> TRUE, n |-> n]

EmptyQuery ==
    [where |-> <<>>, joins |-> <<>>, order_by |-> <<>>,
     offset |-> Unset, limit |-> Unset]

(***************************************************************************)
(* BaseFilterSchema: the coercion of one field's raw value.                *)
(***************************************************************************)
IntElem(n) == [isint |-> TRUE, n |-> n, s |-> <<>>]

StrElem(s) == [isint |-> FALSE, n |-> 0, s |-> s]

ListLookups == {"in_", "not_in"}

\* value_to_validate: the comma-separated tokens for in_ / not_in, else v
ValueToValidate(lookup, v) ==
    IF lookup \in ListLookups THEN Split(v, <<",">>) ELSE <<v>>

\* the coercion of one token to the declared type
CoerceToken(type, tok) ==
    IF type = "int"
    THEN [ok |-> ParseInt(tok).ok, elem |-> IntElem(ParseInt(tok).n)]
    ELSE [ok |-> TRUE, elem |-> StrElem(tok)]

\* name_must_contain_space: the validated value of the field, or its errors
ValidateField(name, type, lookup, v) ==
    LET toks == ValueToValidate(lookup, v)
        islist == lookup \in ListLookups
        Bad(i) == ~CoerceToken(type, toks[i]).ok
        bad == SelectSeq([i \in 1..Len(toks) |-> i], Bad)
    IN  [errors |-> [j \in 1..Len(bad) |->
                        Err(IF type = "int" THEN "int_parsing" ELSE "string_type",
                            name, IF islist THEN bad[j] - 1 ELSE NoIdx)],
         value |-> [list |-> islist,
                    items |-> [i \in 1..Len(toks) |-> CoerceToken(type, toks[i]).elem]]]

(***************************************************************************)
(* BaseFilter.filter.                                                      *)
(***************************************************************************)
LookupInfo(field_name, lookup, value) ==
    [field_name |-> field_name, lookup |-> lookup, value |-> value]

ParseKeyFieldFirst(key, sch) ==
    LET parts == Split(key, DD)
    IN  IF Len(parts) = 2
        THEN IF parts[1] \notin FieldNames(sch)
             THEN [ok |-> FALSE, field_name |-> parts[1], lookup |-> "",
                   err |-> Err("unknown_field", parts[1], NoIdx)]
             ELSE IF parts[2] \notin LookupSuffixes
             THEN [ok |-> FALSE, field_name |-> parts[1], lookup |-> "",
                   err |-> Err("unknown_lookup", parts[2], NoIdx)]
             ELSE [ok |-> TRUE, field_name |-> parts[1],
                   lookup |-> ORM_LOOKUP_MAPPING(parts[2]),
                   err |-> Err("", <<>>, NoIdx)]
        ELSE IF key \notin FieldNames(sch)
             THEN [ok |-> FALSE, field_name |-> key, lookup |-> "__eq__",
                   err |-> Err("unknown_field", key, NoIdx)]
             ELSE [ok |-> TRUE, field_name |-> key, lookup |-> "__eq__",
                   err |-> Err("", <<>>, NoIdx)]

\* the body of the loop over the parameters, for one non-reserved key
ParseKey(key, sch) ==
    LET parts == Split(key, DD)
    IN  IF Len(parts) = 2
        THEN IF parts[2] \notin LookupSuffixes
             THEN [ok |-> FALSE, field_name |-> parts[1], lookup |-> "",
                   err |-> Err("unknown_lookup", parts[2], NoIdx)]
             ELSE IF parts[1] \notin FieldNames(sch)
             THEN [ok |-> FALSE, field_name |-> parts[1], lookup |-> "",
                   err |-> Err("unknown_field", parts[1], NoIdx)]
             ELSE [ok |-> TRUE, field_name |-> parts[1],
                   lookup |-> ORM_LOOKUP_MAPPING(parts[2]),
                   err |-> Err("", <<>>, NoIdx)]
        ELSE IF key \notin FieldNames(sch)
             THEN [ok |-> FALSE, field_name |-> key, lookup |-> "__eq__",
                   err |-> Err("unknown_field", key, NoIdx)]
             ELSE [ok |-> TRUE, field_name |-> key, lookup |-> "__eq__",
                   err |-> Err("", <<>>, NoIdx)]

\* the loop over the parameters: the lookups, or the first key's error
RECURSIVE ParseKeys(_, _, _, _)
ParseKeys(params, sch, i, lookups) ==
    IF i > Len(params) THEN [ok |-> TRUE, lookups |-> lookups, errors |-> <<>>]
    ELSE IF params[i].key \in ReservedKeys
         THEN ParseKeys(params, sch, i + 1, lookups)
    ELSE LET r == ParseKey(params[i].key, sch)
         IN  IF ~r.ok
             THEN [ok |-> FALSE, lookups |-> lookups, errors |-> <<r.err>>]
             ELSE ParseKeys(params, sch, i + 1,
                      Append(lookups,
                             LookupInfo(r.field_name, r.lookup, params[i].value)))

\* the entry a dict comprehension over the lookups keeps for a field: the last
LastFor(lookups, name) ==
    lookups[CHOOSE i \in 1..Len(lookups) :
               /\ lookups[i].field_name = name
               /\ \A j \in (i + 1)..Len(lookups) : lookups[j].field_name # name]

Named(lookups, name) == \E i \in 1..Len(lookups) : lookups[i].field_name = name

\* schema.model_validate(obj, context) for one field of the schema
ValidatedField(lookups, fld) ==
    ValidateField(fld.name, fld.type, LastFor(lookups, fld.name).lookup,
                  LastFor(lookups, fld.name).value)

\* the errors of schema.model_validate, in the order of the schema's fields
RECURSIVE ValidationErrors(_, _, _)
ValidationErrors(lookups, sch, i) ==
    IF i > Len(sch) THEN <<>>
    ELSE (IF Named(lookups, sch[i].name)
          THEN ValidatedField(lookups, sch[i]).errors ELSE <<>>)
         \o ValidationErrors(lookups, sch, i + 1)

\* getattr(validated_filter, lookup.field_name)
ValidatedValue(lookups, sch, name) ==
    ValidatedField(lookups, FieldOf(sch, name)).value

Predicate(field_name, lookup, value) ==
    [field |-> field_name, lookup |-> lookup, value |-> value]

\* the column method accepts the value: in_ and not_in take a sequence only
\* (the call raises ArgumentError otherwise); the other methods take any value
ColumnCallOk(lookup, value) == lookup \in ListLookups => value.list

WithPredicate(q, pred) == [q EXCEPT !.where = Append(@, pred)]

\* the final loop over the lookups: each predicate is assigned to the query
\* as it is built, so a column call that raises leaves the earlier ones
RECURSIVE ApplyLookups(_, _, _, _)
ApplyLookups(lookups, sch, i, q) ==
    IF i > Len(lookups) THEN [ok |-> TRUE, errors |-> <<>>, query |-> q]
    ELSE LET lk == lookups[i]
             value == ValidatedValue(lookups, sch, lk.field_name)
         IN  IF ~ColumnCallOk(lk.lookup, value)
             THEN [ok |-> FALSE, query |-> q,
                   errors |-> <<Err("argument_error", lk.field_name, NoIdx)>>]
             ELSE ApplyLookups(lookups, sch, i + 1,
                      WithPredicate(q, Predicate(lk.field_name, lk.lookup, value)))

\* filter(): the query with one predicate per lookup, or the error raised
FilterStage(params, sch, q) ==
    LET parsed == ParseKeys(params, sch, 1, <<>>)
        verrs == ValidationErrors(parsed.lookups, sch, 1)
    IN  IF ~parsed.ok
        THEN [ok |-> FALSE, errors |-> parsed.errors, query |-> q]
        ELSE IF verrs # <<>>
        THEN [ok |-> FALSE, errors |-> verrs, query |-> q]
        ELSE ApplyLookups(parsed.lookups, sch, 1, q)

(***************************************************************************)
(* BaseFilter.search.                                                      *)
(***************************************************************************)
\* search_fields: the names of the searchable fields, in schema order
SearchFields(sch) ==
    LET Searchable(f) == f.searchable
        found == SelectSeq(sch, Searchable)
    IN  [i \in 1..Len(found) |-> found[i].name]

OrderClause(field_name, order, is_text) ==
    [field |-> field_name, order |-> order, text |-> is_text]

RankingJoin(fields, search_query) == [fields |-> fields, search |-> search_query]

SearchStageAlways(params, sch, q) ==
    [q EXCEPT !.joins = Append(@, RankingJoin(SearchFields(sch),
                                             Get(params, search_param).value)),
              !.order_by = Append(@, OrderClause(<<"result">>, "desc", TRUE))]

\* search(): the query joined with the ranking subquery, or left as it is
SearchStage(params, sch, q) ==
    LET search_query == Get(params, search_param)
    IN  IF Falsy(search_query) THEN q
        ELSE [q EXCEPT
                !.joins = Append(@, RankingJoin(SearchFields(sch), search_query.value)),
                !.order_by = Append(@, OrderClause(<<"result">>, "desc", TRUE))]

(***************************************************************************)
(* BaseFilter.order.                                                       *)
(***************************************************************************)
\* the ordering parameter, or the default ordering when it is None or ''
OrderBy(params, dflt) ==
    IF Falsy(Get(params, ordering_param)) THEN dflt
    ELSE Get(params, ordering_param).value

OrderSpecNoPlus(order_by) ==
    IF order_by[1] = "-"
    THEN [order |-> "desc", field_name |-> Tail(order_by)]
    ELSE [order |-> "asc", field_name |-> order_by]

\* the direction and the field name of an ordering value
OrderSpec(order_by) ==
    IF order_by[1] = "-"
    THEN [order |-> "desc", field_name |-> Tail(order_by)]
    ELSE [order |-> "asc",
          field_name |-> IF order_by[1] = "+" THEN Tail(order_by) ELSE order_by]

\* order(): the query with the order-by clause, or the error raised
OrderStage(params, sch, dflt, q) ==
    LET spec == OrderSpec(OrderBy(params, dflt))
    IN  IF spec.field_name \notin FieldNames(sch)
        THEN [ok |-> FALSE, query |-> q,
              errors |-> <<Err("unknown_ordering", spec.field_name, NoIdx)>>]
        ELSE IF ~FieldOf(sch, spec.field_name).orderable
        THEN [ok |-> FALSE, query |-> q,
              errors |-> <<Err("ordering_not_permitted", spec.field_name, NoIdx)>>]
        ELSE [ok |-> TRUE, errors |-> <<>>,
              query |-> [q EXCEPT !.order_by =
                           Append(@, OrderClause(spec.field_name, spec.order, FALSE))]]

(***************************************************************************)
(* BaseFilter.offset, limit, full.                                         *)
(***************************************************************************)
OffsetOfNextPage(pg) == (pg.page + 1) * pg.per_page

OffsetOf(pg) == pg.page * pg.per_page

LimitOf(pg) == pg.per_page

FullOrderOffsetFirst == <<"offset", "limit", "filter", "search", "order">>

\* full(): filter().search().order().offset().limit()
FullOrder == <<"filter", "search", "order", "offset", "limit">>

(***************************************************************************)
(* The inputs: schemas, default orderings and requests.                    *)
(***************************************************************************)
Field(name, type, orderable, searchable) ==
    [name |-> name, type |-> type, orderable |-> orderable, searchable |-> searchable]

\* Person with an id: every field orderable, age not searchable
SchemaA ==
    <<Field(<<"id">>, "int", TRUE, TRUE),
      Field(<<"name">>, "str", TRUE, TRUE),
      Field(<<"age">>, "int", TRUE, FALSE)>>

\* no id field; name not orderable, age not searchable
SchemaB ==
    <<Field(<<"name">>, "str", FALSE, TRUE),
      Field(<<"age">>, "int", TRUE, FALSE),
      Field(<<"city">>, "str", TRUE, TRUE)>>

Key(field, suffix) == field \o DD \o suffix

\* the filter parameters of the generated requests
FilterParams ==
    {Param(<<"age">>, <<"5">>),
     Param(<<"age">>, <<"x">>),
     Param(Key(<<"age">>, <<"gt">>), <<"5">>),
     Param(Key(<<"age">>, <<"lt">>), <<"9">>),
     Param(Key(<<"age">>, <<"in">>), <<"1", ",", "2">>),
     Param(Key(<<"age">>, <<"in">>), <<"1", ",", "x", ",", "y">>),
     Param(Key(<<"age">>, <<"bogus">>), <<"1">>),
     Param(Key(<<"zz">>, <<"bogus">>), <<"1">>),
     Param(Key(<<"zz">>, <<"gt">>), <<"x">>),
     Param(Key(<<"id">>, <<"neq">>), <<"x">>)}

RECURSIVE ParamSeqs(_)
\* the sequences of at most n filter parameters with distinct keys
ParamSeqs(n) ==
    IF n = 0 THEN {<<>>}
    ELSE LET prev == ParamSeqs(n - 1)
         IN  prev \cup
             {Append(t, p) : t \in {u \in prev : Len(u) = n - 1},
                             p \in FilterParams}

DistinctKeys(params) ==
    \A i, j \in 1..Len(params) : params[i].key = params[j].key => i = j

\* the nine operator names of the documentation, as key suffixes
DocumentedOperators ==
    {<<"eq">>, <<"neq">>, <<"gt">>, <<"gte">>, <<"lt">>, <<"lte">>, <<"in">>,
     <<"not", "_", "in">>, <<"regexp">>}

\* one-key requests: each documented operator on a declared and on an
\* undeclared field, bare keys, and keys with two delimiters
SingleKeyParams ==
    {Param(Key(f, op), <<"1">>) : f \in {<<"age">>, <<"unknown", "_", "field">>},
                                  op \in DocumentedOperators}
    \cup {Param(<<"zz">>, <<"1">>),
          Param(<<"age">>, <<"1">>),
          Param(Key(Key(<<"age">>, <<"gt">>), <<"x">>), <<"1">>),
          Param(Key(<<"age">>, <<>>), <<"1">>),
          Param(<<"age", "_", "_", "_", "gt">>, <<"1">>),
          Param(<<"age">>, <<"1", "_", "0">>),
          Param(<<"age">>, <<" ", "5">>),
          Param(<<"age">>, <<"\t", "5", "\n">>),
          Param(<<"age">>, <<"\r", "5", " ">>),
          Param(<<"age">>, <<"1", "\t", "0">>),
          Param(<<"age">>, <<"5", ".", "0">>),
          Param(<<"age">>, <<"1", ".", "5">>),
          Param(Key(<<"age">>, <<"in">>), <<"1", ",", " ", "2", " ">>)}

PageValues == {<<"0">>, <<"1">>, <<"-", "1">>, <<"x">>, <<"\t", "1">>}

PerPageValues ==
    {<<"5">>, <<"1">>, <<"0">>, <<"1", "0", "0">>, <<"1", "0", "1">>, <<"1", "5", "0">>,
     <<"1", "_", "0">>}

OrderValues ==
    {<<>>, <<"-", "age">>, <<"+", "age">>, <<"age">>, <<"name">>, <<"-", "name">>,
     <<"-", "zz">>, <<"-">>, <<"-", "-", "age">>}

SearchValues == {<<>>, <<"bob">>}

\* an optional parameter: absent, or present with one of the values
Optional(k, values) == {<<>>} \cup {<<Param(k, v)>> : v \in values}

Case(sch, dflt, params) ==
    [schema |-> sch, default_ordering |-> dflt, request |-> params]

\* requests that vary the filter parameters
FilterCases ==
    {Case(SchemaA, <<"id">>, ps) : ps \in {t \in ParamSeqs(MaxKeys) : DistinctKeys(t)}}
    \cup {Case(SchemaA, <<"id">>, <<p>>) : p \in SingleKeyParams}

\* requests that vary page and per_page, with and without other parameters
PaginationCases ==
    {Case(SchemaA, <<"id">>, pg \o pp \o f \o o) :
        pg \in Optional(page_param, PageValues),
        pp \in Optional(per_page_param, PerPageValues),
        f \in {<<>>, <<Param(Key(<<"name">>, <<"regexp">>), <<"^A", ".", "*">>)>>,
               <<Param(<<"zz">>, <<"1">>)>>},
        o \in {<<>>, <<Param(ordering_param, <<"-", "age">>)>>,
               <<Param(ordering_param, <<"-", "zz">>),
                 Param(search_param, <<"bob">>)>>}}

\* requests that vary the ordering and the search parameter
OrderingCases ==
    {Case(sch, dflt, f \o o \o s) :
        sch \in {SchemaA, SchemaB},
        dflt \in {<<"id">>, <<"name">>},
        f \in {<<>>, <<Param(Key(<<"name">>, <<"regexp">>), <<"^A", ".", "*">>)>>,
               <<Param(<<"age">>, <<"x">>)>>},
        o \in Optional(ordering_param, OrderValues),
        s \in Optional(search_param, SearchValues)}

\* requests in which several keys name the same field
RepeatedFieldCases ==
    {Case(SchemaA, <<"id">>, ps) : ps \in
        {<<Param(Key(<<"age">>, <<"in">>), <<"1", ",", "2">>),
           Param(<<"age">>, <<"5">>)>>,
         <<Param(Key(<<"age">>, <<"gt">>), <<"5">>),
           Param(Key(<<"age">>, <<"in">>), <<"1", ",", "2">>),
           Param(Key(<<"age">>, <<"lt">>), <<"9">>)>>,
         <<Param(<<"name">>, <<"bob">>),
           Param(Key(<<"age">>, <<"not", "_", "in">>), <<"1", ",", "2">>),
           Param(Key(<<"age">>, <<"gt">>), <<"5">>)>>}}

Cases == FilterCases \cup PaginationCases \cup OrderingCases \cup RepeatedFieldCases

\* a query handed to inject_query: a select with a where clause of its own
InjectedQuery ==
    [EmptyQuery EXCEPT
        !.where = <<Predicate(<<"id">>, "__gt__",
                              [list |-> FALSE, items |-> <<IntElem(0)>>])>>]

Scalars == {<<>>, <<"row">>}

NoResponse == [page |-> 0 - 1, per_page |-> 0 - 1, results |-> <<>>]

(***************************************************************************)
(* The state machine: one request, one BaseFilter.                         *)
(***************************************************************************)
Init ==
    /\ \E c \in Cases :
          /\ schema = c.schema
          /\ default_ordering = c.default_ordering
          /\ request = c.request
    /\ state = "new"
    /\ pc = 1
    /\ paginator = NoPaginator
    /\ query = EmptyQuery
    /\ error = <<>>
    /\ last = "none"
    /\ trace = <<>>
    /\ full_run = <<>>
    /\ full_result = "none"
    /\ calls = 0
    /\ response = NoResponse

\* BaseFilter.__init__: when it raises there is no compiler to call
Construct ==
    /\ state = "new"
    /\ LET v == PaginatorValidate(request)
       IN  /\ state' = IF v.errors = <<>> THEN "ready" ELSE "dead"
           /\ error' = v.errors
           /\ last' = IF v.errors = <<>> THEN "returned" ELSE "raised"
           /\ paginator' = IF v.errors = <<>>
                           THEN [page |-> v.page, per_page |-> v.per_page]
                           ELSE NoPaginator
    /\ query' = EmptyQuery
    /\ UNCHANGED <<schema, default_ordering, request, pc, trace, full_run,
                   full_result, calls, response>>

\* a stage may run when the caller calls it, or when full() has reached it
CanRun(stage) ==
    IF state = "running" THEN FullOrder[pc] = stage
    ELSE state = "ready" /\ calls < MaxCalls

\* the bookkeeping of a stage that returned (ok) or raised: inside full() a
\* raise ends full(), and the last stage's return is full()'s return
Ran(stage, ok) ==
    /\ last' = IF ok THEN "returned" ELSE "raised"
    /\ trace' = Append(trace, stage)
    /\ IF state = "running"
       THEN /\ state' = IF ok /\ pc < Len(FullOrder) THEN "running" ELSE "ready"
            /\ pc' = IF ok THEN pc + 1 ELSE pc
            /\ full_run' = Append(full_run, stage)
            /\ full_result' = IF ~ok THEN "raised"
                               ELSE IF pc = Len(FullOrder) THEN "returned"
                               ELSE "running"
            /\ calls' = calls
       ELSE /\ calls' = calls + 1
            /\ UNCHANGED <<state, pc, full_run, full_result>>
    /\ UNCHANGED <<schema, default_ordering, request, paginator, response>>

\* BaseFilter.inject_query
InjectQuery ==
    /\ state = "ready"
    /\ calls < MaxCalls
    /\ query' = InjectedQuery
    /\ calls' = calls + 1
    /\ trace' = Append(trace, "inject_query")
    /\ error' = <<>>
    /\ last' = "returned"
    /\ UNCHANGED <<schema, default_ordering, request, state, pc, paginator,
                   full_run, full_result, response>>

\* BaseFilter.filter
Filter ==
    /\ CanRun("filter")
    /\ LET r == FilterStage(request, schema, query)
       IN  /\ query' = r.query
           /\ error' = r.errors
           /\ Ran("filter", r.ok)

\* BaseFilter.search
Search ==
    /\ CanRun("search")
    /\ query' = SearchStage(request, schema, query)
    /\ error' = <<>>
    /\ Ran("search", TRUE)

\* BaseFilter.order
Order ==
    /\ CanRun("order")
    /\ LET r == OrderStage(request, schema, default_ordering, query)
       IN  /\ query' = r.query
           /\ error' = r.errors
           /\ Ran("order", r.ok)

\* BaseFilter.offset
Offset ==
    /\ CanRun("offset")
    /\ query' = [query EXCEPT !.offset = SetTo(OffsetOf(paginator))]
    /\ error' = <<>>
    /\ Ran("offset", TRUE)

\* BaseFilter.limit
Limit ==
    /\ CanRun("limit")
    /\ query' = [query EXCEPT !.limit = SetTo(LimitOf(paginator))]
    /\ error' = <<>>
    /\ Ran("limit", TRUE)

\* BaseFilter.full: the call; the stages then run in the order of the chain
Full ==
    /\ state = "ready"
    /\ calls < MaxCalls
    /\ state' = "running"
    /\ pc' = 1
    /\ full_run' = <<>>
    /\ full_result' = "running"
    /\ calls' = calls + 1
    /\ UNCHANGED <<schema, default_ordering, request, paginator, query, error,
                   last, trace, response>>

\* BaseFilter.get_response
GetResponse ==
    /\ state = "ready"
    /\ calls < MaxCalls
    /\ \E scalars \in Scalars :
          response' = [page |-> paginator.page, per_page |-> paginator.per_page,
                       results |-> scalars]
    /\ calls' = calls + 1
    /\ trace' = Append(trace, "get_response")
    /\ error' = <<>>
    /\ last' = "returned"
    /\ UNCHANGED <<schema, default_ordering, request, state, pc, paginator,
                   query, full_run, full_result>>

Next ==
    \/ Construct
    \/ InjectQuery
    \/ Filter
    \/ Search
    \/ Order
    \/ Offset
    \/ Limit
    \/ Full
    \/ GetResponse

Spec == Init /\ [][Next]_vars

(***************************************************************************)
(* Properties.                                                             *)
(***************************************************************************)
\* the last call on the compiler was the given stage
LastCall(stage) == trace # <<>> /\ trace[Len(trace)] = stage

\* the step is a call of the given stage
Calls(stage) == trace' = Append(trace, stage)

\* the positions of the non-reserved parameters of the request
FilterPositions ==
    {i \in 1..Len(request) :
        request[i].key \notin {<<"order", "_", "by">>, <<"search">>, <<"page">>,
                               <<"per", "_", "page">>}}

\* the key at position i has the form <field>__<suffix>
TwoParts(i) == Len(Split(request[i].key, <<"_", "_">>)) = 2

KeyField(i) == Split(request[i].key, <<"_", "_">>)[1]

KeySuffix(i) == Split(request[i].key, <<"_", "_">>)[2]

\* the error entry names the key at position j, its field or its suffix
FromKey(e, j) ==
    \/ e.name = request[j].key
    \/ TwoParts(j) /\ e.name \in {KeyField(j), KeySuffix(j)}

\* C1: after filter(), a key <field>__<suffix> whose suffix is none of the
\* documented operators makes the stage fail with exactly the unknown-lookup
\* error naming that suffix, whether or not <field> is declared, unless the
\* error reported stems from a key earlier in the request; it never reports
\* that key's field as unknown.
C1_UnknownOperatorBeforeField ==
    LastCall("filter") =>
        \A i \in FilterPositions :
            (TwoParts(i) /\ KeySuffix(i) \notin DocumentedOperators) =>
                /\ last = "raised"
                /\ Len(error) = 1
                /\ \/ error[1] = Err("unknown_lookup", KeySuffix(i), NoIdx)
                   \/ \E j \in FilterPositions : j < i /\ FromKey(error[1], j)

\* C1 witness: a declared key followed by an undeclared field with an unknown
\* suffix: the suffix is reported.
C1_Witness ==
    /\ LastCall("filter")
    /\ Len(request) = 2
    /\ request[1].key = <<"age">>
    /\ request[2].key = <<"zz", "_", "_", "bogus">>
    /\ <<"zz">> \notin FieldNames(schema)
    /\ last = "raised"
    /\ error = <<Err("unknown_lookup", <<"bogus">>, NoIdx)>>

\* C2 (as claimed): each of the nine operators eq, neq, gt, gte, lt, lte, in,
\* not_in, regexp is accepted as a key suffix: a one-key request
\* <field>__<op> with an undeclared field fails with the unknown-field error
\* naming the field, and <field>__eq on a declared field gives what the bare
\* key gives.
C2_NineOperatorsAccepted ==
    (LastCall("filter") /\ Len(trace) = 1 /\ Len(request) = 1 /\ TwoParts(1)
        /\ KeySuffix(1) \in DocumentedOperators) =>
        /\ KeyField(1) \notin FieldNames(schema) =>
              /\ last = "raised"
              /\ error = <<Err("unknown_field", KeyField(1), NoIdx)>>
        /\ (KeyField(1) \in FieldNames(schema) /\ KeySuffix(1) = <<"eq">>) =>
              LET bare == FilterStage(<<Param(KeyField(1), request[1].value)>>,
                                      schema, EmptyQuery)
              IN  /\ (last = "raised") = ~bare.ok
                  /\ error = bare.errors
                  /\ query = bare.query

\* the number of predicates filter() adds on success: one per accepted key
C10_Added == Cardinality(FilterPositions)

\* C10 (as claimed): a failing filter() leaves the query as it was, whatever
\* keys were accepted before the failure; a successful one adds one predicate
\* per non-reserved key to the where clause and changes nothing else.
C10_FilterAllOrNothing ==
    [][Calls("filter") =>
          IF last' = "raised"
          THEN query' = query /\ error' # <<>>
          ELSE /\ Len(query'.where) = Len(query.where) + C10_Added
               /\ SubSeq(query'.where, 1, Len(query.where)) = query.where
               /\ [query' EXCEPT !.where = query.where] = query]_vars

\* page and per_page as the request gives them
ReqPage == Get(request, <<"page">>)

ReqPerPage == Get(request, <<"per", "_", "page">>)

\* the values the paginator must hold: the request's, or the defaults 0 and 10
WantPage == IF ReqPage.present THEN ParseInt(ReqPage.value).n ELSE 0

WantPerPage == IF ReqPerPage.present THEN ParseInt(ReqPerPage.value).n ELSE 10

PageOk ==
    ~ReqPage.present \/ (ParseInt(ReqPage.value).ok /\ WantPage >= 0)

PerPageOk ==
    \/ ~ReqPerPage.present
    \/ ParseInt(ReqPerPage.value).ok /\ WantPerPage >= 1 /\ WantPerPage <= 100

RangeKinds == {"greater_than_equal", "less_than_equal"}

\* C3: construction succeeds exactly when page >= 0 and 1 <= per_page <= 100
\* (absent: 0 and 10) and then holds those values; otherwise it fails before
\* any stage has run, with errors that name only page / per_page and a range
\* error for each integer out of range, whatever the other parameters are.
C3_PaginationValidatedAtConstruction ==
    state # "new" =>
        IF PageOk /\ PerPageOk
        THEN /\ paginator = [page |-> WantPage, per_page |-> WantPerPage]
             /\ state # "dead"
        ELSE /\ state = "dead"
             /\ last = "raised"
             /\ trace = <<>>
             /\ calls = 0
             /\ query = EmptyQuery
             /\ response = NoResponse
             /\ error # <<>>
             /\ \A k \in 1..Len(error) :
                   error[k].name \in {<<"page">>, <<"per", "_", "page">>}
             /\ (ParseInt(ReqPage.value).ok /\ ~PageOk) =>
                   \E k \in 1..Len(error) :
                       error[k].name = <<"page">> /\ error[k].kind \in RangeKinds
             /\ (ParseInt(ReqPerPage.value).ok /\ ~PerPageOk) =>
                   \E k \in 1..Len(error) :
                       /\ error[k].name = <<"per", "_", "page">>
                       /\ error[k].kind \in RangeKinds

\* C3 witness: per_page=150 fails construction although the request also has
\* a valid filter key and a valid ordering.
C3_Witness ==
    /\ state = "dead"
    /\ trace = <<>>
    /\ ReqPerPage.present /\ ReqPerPage.value = <<"1", "5", "0">>
    /\ ~ReqPage.present
    /\ HasKey(request, <<"name", "_", "_", "regexp">>)
    /\ HasKey(request, <<"order", "_", "by">>)
    /\ error = <<Err("less_than_equal", <<"per", "_", "page">>, NoIdx)>>

FilterKinds == {"unknown_lookup", "unknown_field", "int_parsing", "argument_error"}

OrderKinds == {"unknown_ordering", "ordering_not_permitted"}

\* the stage a step of full() has to invoke, given the stages invoked so far
C4_NextStage == <<"filter", "search", "order", "offset", "limit">>[Len(full_run) + 1]

\* C4: the calls full() makes are, in order, filter, search, order, offset,
\* limit, each once, and full() has returned exactly after all five; a stage
\* that raises ends full() at once with its error as the error of full(), so
\* no later stage is invoked; each stage amends only its own part of the one
\* query, so that after a raise in filter() the query has nothing of search,
\* order, offset or limit, and after a raise in order() nothing of offset or
\* limit, beyond what it had when full() was called.
C4_FullPipelineOrder ==
    /\ [](/\ (state = "running") = (full_result = "running")
          /\ Len(full_run) <= 5
          /\ \A k \in 1..Len(full_run) :
                full_run[k] = <<"filter", "search", "order", "offset", "limit">>[k]
          /\ full_result = "returned" => Len(full_run) = 5
          /\ full_result = "running" => Len(full_run) < 5
          /\ full_result = "raised" =>
                /\ full_run # <<>>
                /\ full_run[Len(full_run)] \in {"filter", "order"})
    /\ [][/\ (state = "running" /\ full_result = "running") =>
                /\ Calls(C4_NextStage)
                /\ full_run' = Append(full_run, C4_NextStage)
                /\ calls' = calls
                /\ last' = "raised" =>
                      /\ state' = "ready"
                      /\ full_result' = "raised"
                      /\ error' # <<>>
                      /\ query'.offset = query.offset
                      /\ query'.limit = query.limit
                      /\ Calls("filter") =>
                            /\ \A k \in 1..Len(error') : error'[k].kind \in FilterKinds
                            /\ [query' EXCEPT !.where = query.where] = query
                      /\ Calls("order") =>
                            /\ \A k \in 1..Len(error') : error'[k].kind \in OrderKinds
                            /\ query' = query
                /\ last' = "returned" =>
                      /\ error' = <<>>
                      /\ full_result' = IF Len(full_run) = 4 THEN "returned" ELSE "running"
                      /\ Calls("filter") => [query' EXCEPT !.where = query.where] = query
                      /\ Calls("search") =>
                            [query' EXCEPT !.joins = query.joins,
                                           !.order_by = query.order_by] = query
                      /\ Calls("order") => [query' EXCEPT !.order_by = query.order_by] = query
                      /\ Calls("offset") => [query' EXCEPT !.offset = query.offset] = query
                      /\ Calls("limit") => [query' EXCEPT !.limit = query.limit] = query
          /\ state # "running" =>
                IF state' = "running"
                THEN full_run' = <<>> /\ full_result' = "running" /\ query' = query
                ELSE full_run' = full_run /\ full_result' = full_result]_vars

\* C4 witness: full() raised in order() after filter() and search() amended
\* the query; offset and limit were not applied.
C4_Witness ==
    /\ full_result = "raised"
    /\ state = "ready"
    /\ full_run = <<"filter", "search", "order">>
    /\ trace = full_run
    /\ last = "raised"
    /\ query.where # <<>>
    /\ query.joins # <<>>
    /\ query.offset = Unset
    /\ query.limit = Unset
    /\ error[1].kind = "ordering_not_permitted"

\* C5: offset() sets the query's offset to page * per_page and limit() its
\* limit to per_page, page and per_page being the values validated at
\* construction, and neither raises; no call changes the paginator; when
\* full() returns both are set; get_response carries the same page and
\* per_page.
C5_OffsetAndLimitFromPaginator ==
    /\ [](state \in {"ready", "running"} =>
             paginator = [page |-> WantPage, per_page |-> WantPerPage])
    /\ [][/\ state # "new" => paginator' = paginator
          /\ Calls("offset") =>
                /\ query' = [query EXCEPT !.offset = SetTo(WantPage * WantPerPage)]
                /\ last' = "returned"
          /\ Calls("limit") =>
                /\ query' = [query EXCEPT !.limit = SetTo(WantPerPage)]
                /\ last' = "returned"
          /\ (full_result = "running" /\ full_result' = "returned") =>
                /\ query'.offset = SetTo(WantPage * WantPerPage)
                /\ query'.limit = SetTo(WantPerPage)
          /\ Calls("get_response") =>
                /\ response'.page = WantPage
                /\ response'.per_page = WantPerPage
                /\ query' = query]_vars

\* C5 witness: name__regexp=^A.*&order_by=-age&page=1&per_page=5 compiled by
\* full(): the regexp predicate, age descending, offset 5, limit 5, and the
\* response built afterwards carries page 1 and per_page 5.
C5_Witness ==
    /\ trace = <<"filter", "search", "order", "offset", "limit", "get_response">>
    /\ full_result = "returned"
    /\ ReqPage.value = <<"1">>
    /\ ReqPerPage.value = <<"5">>
    /\ query.where = <<Predicate(<<"name">>, "regexp_match",
                                 [list |-> FALSE, items |-> <<StrElem(<<"^A", ".", "*">>)>>])>>
    /\ query.order_by = <<OrderClause(<<"age">>, "desc", FALSE)>>
    /\ query.offset = SetTo(5)
    /\ query.limit = SetTo(5)
    /\ response.page = 1
    /\ response.per_page = 5

\* the ordering value order() resolves: the parameter, or the default
\* ordering when the parameter is absent or empty
WantOrderBy ==
    IF HasKey(request, <<"order", "_", "by">>)
       /\ Get(request, <<"order", "_", "by">>).value # <<>>
    THEN Get(request, <<"order", "_", "by">>).value
    ELSE default_ordering

WantOrder == IF WantOrderBy[1] = "-" THEN "desc" ELSE "asc"

WantOrderField ==
    IF WantOrderBy[1] \in {"-", "+"} THEN Tail(WantOrderBy) ELSE WantOrderBy

\* C6: order() resolves the ordering parameter, or the default ordering when
\* it is absent or empty: "-" descending on the rest, "+" ascending on the
\* rest, otherwise ascending on the whole.  It appends that clause, and only
\* that, when the field is declared and orderable; otherwise it fails with
\* the unknown-ordering error (undeclared) or the not-permitted error (not
\* orderable) and leaves the query as it was.
C6_OrderResolution ==
    [][Calls("order") =>
          IF \E i \in 1..Len(schema) :
                schema[i].name = WantOrderField /\ schema[i].orderable
          THEN /\ last' = "returned"
               /\ query' = [query EXCEPT !.order_by =
                              Append(@, OrderClause(WantOrderField, WantOrder, FALSE))]
          ELSE /\ last' = "raised"
               /\ query' = query
               /\ error' =
                    <<Err(IF \E i \in 1..Len(schema) : schema[i].name = WantOrderField
                          THEN "ordering_not_permitted" ELSE "unknown_ordering",
                          WantOrderField, NoIdx)>>]_vars

\* C6 witness: no ordering parameter and a default ordering field that is
\* declared but not orderable: order() fails and appends nothing.
C6_Witness ==
    /\ LastCall("order")
    /\ last = "raised"
    /\ ~HasKey(request, <<"order", "_", "by">>)
    /\ default_ordering = <<"name">>
    /\ \E i \in 1..Len(schema) : schema[i].name = <<"name">> /\ ~schema[i].orderable
    /\ error = <<Err("ordering_not_permitted", <<"name">>, NoIdx)>>
    /\ query.order_by = <<>>

\* the names of the searchable fields of the schema
SearchableNames == {schema[i].name : i \in {j \in 1..Len(schema) : schema[j].searchable}}

\* C7: search() never fails; with the search parameter absent or empty it
\* leaves the query as it was; otherwise it adds one ranking join, over
\* exactly the searchable fields and the search text, and one descending
\* order on the ranking, and nothing else.
C7_SearchNoOpWhenEmpty ==
    [][Calls("search") =>
          /\ last' = "returned"
          /\ error' = <<>>
          /\ IF ~HasKey(request, <<"search">>) \/ Get(request, <<"search">>).value = <<>>
             THEN query' = query
             ELSE /\ Len(query'.joins) = Len(query.joins) + 1
                  /\ SubSeq(query'.joins, 1, Len(query.joins)) = query.joins
                  /\ LET j == query'.joins[Len(query'.joins)]
                     IN  /\ {j.fields[k] : k \in 1..Len(j.fields)} = SearchableNames
                         /\ Len(j.fields) = Cardinality(SearchableNames)
                         /\ j.search = Get(request, <<"search">>).value
                  /\ query'.order_by =
                        Append(query.order_by, OrderClause(<<"result">>, "desc", TRUE))
                  /\ query'.where = query.where
                  /\ query'.offset = query.offset
                  /\ query'.limit = query.limit]_vars

\* C7 witness: search() ran after filter() with search= (empty) and the query
\* has the filter's predicate and no join.
C7_Witness ==
    /\ LastCall("search")
    /\ HasKey(request, <<"search">>)
    /\ Get(request, <<"search">>).value = <<>>
    /\ query.where # <<>>
    /\ query.joins = <<>>
    /\ query.order_by = <<>>

\* the lookup of the key at position i, parsed on its own
OwnLookup(i) == ParseKey(request[i].key, schema)

\* the coercion of the value at position i under the operator of its own key
OwnCoercion(i) ==
    ValidateField(OwnLookup(i).field_name,
                  FieldOf(schema, OwnLookup(i).field_name).type,
                  OwnLookup(i).lookup, request[i].value)

ParseKinds == {"unknown_lookup", "unknown_field"}

\* C8 (as claimed): after filter(), if some non-reserved key is invalid, the
\* error is exactly the one entry of the first invalid key and no coercion
\* error is reported; if every key parses, the error holds an entry for every
\* value that fails coercion under its key's operator (one per failing scalar
\* or list element), and the stage fails exactly when there is one.
C8_FailFastParsingBatchedCoercion ==
    LastCall("filter") =>
        IF \E i \in FilterPositions : ~OwnLookup(i).ok
        THEN /\ last = "raised"
             /\ \A i \in FilterPositions :
                   (~OwnLookup(i).ok
                      /\ \A j \in FilterPositions : j < i => OwnLookup(j).ok)
                   => error = <<OwnLookup(i).err>>
        ELSE /\ \A i \in FilterPositions :
                   \A k \in 1..Len(OwnCoercion(i).errors) :
                       \E m \in 1..Len(error) : error[m] = OwnCoercion(i).errors[k]
             /\ (last = "raised") =
                   (\E i \in FilterPositions : OwnCoercion(i).errors # <<>>)

\* the position in the request of the k-th non-reserved parameter
NthFilterPosition(k) ==
    CHOOSE i \in FilterPositions :
        Cardinality({j \in FilterPositions : j <= i}) = k

\* C9 (as claimed): after a successful filter(), the query has gained one
\* predicate per non-reserved key, in order, each built from that key's field
\* and operator and from the coercion of that key's own raw value under that
\* key's own operator, also when several keys name the same field.
C9_PredicateFromOwnValue ==
    (LastCall("filter") /\ last = "returned") =>
        LET n == Cardinality(FilterPositions)
            w == query.where
        IN  /\ Len(w) >= n
            /\ \A k \in 1..n :
                  w[Len(w) - n + k] =
                      Predicate(OwnLookup(NthFilterPosition(k)).field_name,
                                OwnLookup(NthFilterPosition(k)).lookup,
                                OwnCoercion(NthFilterPosition(k)).value)

====
